---- MODULE Spec2Model ----
(***************************************************************************)
(* Model of planet-movement: the pair matcher (is_pair / find_pairs of     *)
(* pairs.py and movement.py) and the overlap compositor (process_pair of   *)
(* movement.py).                                                           *)
(*                                                                         *)
(* Ground coordinates, pixel sizes and acquisition times are integers, so  *)
(* every quotient the code takes is an exact rational: floating-point      *)
(* representation error is not modelled.  Python values True, False and    *)
(* None are the strings "True", "False" and "None".                        *)
(***************************************************************************)
EXTENDS Integers, Sequences, FiniteSets, TLC

VARIABLES
    module,     \* which file's is_pair find_pairs calls: "pairs" or "movement"
    all_items,  \* find_pairs: the listed search result
    fi, fj,     \* find_pairs: positions of item_1 and item_2 (1-based)
    pairs,      \* find_pairs: the output list
    calls,      \* find_pairs: every is_pair call made: <<i, j, returned value>>
    fpc,        \* find_pairs: "call", "loop", "return", "done"
    pyround,    \* process_pair: the interpreter's round(): "even" or "away"
    ds_1, ds_2, \* process_pair: the two opened datasets
    cmv, gif,   \* process_pair: the two keyword arguments
    win,        \* process_pair: left1, top1, col1, row1, left2, top2, col2, row2
    array_1, array_2, \* process_pair: the arrays read
    mask,       \* process_pair: the overlap mask
    files,      \* process_pair: what has been written: "tif", "gif"
    ppc,        \* process_pair: position in the function
    err         \* process_pair: the exception that ended it, or "none"

pvars == <<module, all_items, fi, fj, pairs, calls, fpc>>
mvars == <<pyround, ds_1, ds_2, cmv, gif, win, array_1, array_2, mask, files, ppc, err>>
vars == <<module, all_items, fi, fj, pairs, calls, fpc,
          pyround, ds_1, ds_2, cmv, gif, win, array_1, array_2, mask, files, ppc, err>>

Abs(x) == IF x < 0 THEN -x ELSE x
Max(a, b) == IF a >= b THEN a ELSE b
Min(a, b) == IF a <= b THEN a ELSE b

(***************************************************************************)
(* Pair matcher                                                            *)
(***************************************************************************)

\* Most scenes find_pairs is given.
MaxItems == 3

\* A linear ring is the closed rectangle <<xmin, ymin, xmax, ymax>>;
\* coordinates is the list of rings, the first one the exterior.
RingA == <<0, 0, 2, 2>>
RingTouchA == <<2, 0, 4, 2>>
RingFarA == <<5, 5, 6, 6>>

BaseProps == [satellite_id |-> "0e19", strip_id |-> "100", provider |-> "planetscope",
              acquired |-> 0]
BaseGeom == [type |-> "Polygon", coordinates |-> <<RingA>>]

\* The scenes of a search result: a base scene, the scenes that differ from it in
\* one property or in the geometry, and one that differs in two.  acquired is in
\* milliseconds after a common instant.
Scenes ==
    { [properties |-> BaseProps, geometry |-> BaseGeom],
      [properties |-> [BaseProps EXCEPT !.satellite_id = "0f02"], geometry |-> BaseGeom],
      [properties |-> [BaseProps EXCEPT !.strip_id = "101"], geometry |-> BaseGeom],
      [properties |-> [BaseProps EXCEPT !.provider = "rapideye"], geometry |-> BaseGeom],
      [properties |-> [BaseProps EXCEPT !.acquired = 2000], geometry |-> BaseGeom],
      [properties |-> [BaseProps EXCEPT !.acquired = 2001], geometry |-> BaseGeom],
      [properties |-> BaseProps,
       geometry |-> [type |-> "Polygon", coordinates |-> <<RingTouchA>>]],
      [properties |-> BaseProps,
       geometry |-> [type |-> "Polygon", coordinates |-> <<RingFarA>>]],
      [properties |-> BaseProps,
       geometry |-> [type |-> "Polygon", coordinates |-> <<RingFarA, RingA>>]],
      [properties |-> BaseProps,
       geometry |-> [type |-> "MultiPolygon", coordinates |-> <<RingA>>]],
      [properties |-> [BaseProps EXCEPT !.provider = "rapideye"],
       geometry |-> [type |-> "Polygon", coordinates |-> <<RingFarA>>]] }

\* An item is a scene with the id the catalog gave it.
Item(k, scene) == [id |-> k, properties |-> scene.properties, geometry |-> scene.geometry]

\* timedelta.total_seconds() > s, for a difference in milliseconds
TotalSecondsGreater(t_diff, s) == t_diff > s * 1000

\* shapely: Polygon(ring_1).intersects(Polygon(ring_2)); touching counts
PolygonIntersects(ring_1, ring_2) ==
    /\ ring_1[1] <= ring_2[3] /\ ring_2[1] <= ring_1[3]
    /\ ring_1[2] <= ring_2[4] /\ ring_2[2] <= ring_1[4]

\* the part of is_pair both files share: time difference and geometry
IsPairTail(item_1, item_2) ==
    LET t_diff == Abs(item_1.properties.acquired - item_2.properties.acquired)
        geom_1 == item_1.geometry
        geom_2 == item_2.geometry
    IN  IF TotalSecondsGreater(t_diff, 2) THEN "False"
        ELSE IF geom_1.type # "Polygon" \/ geom_2.type # "Polygon" THEN "False"
        ELSE IF PolygonIntersects(geom_1.coordinates[1], geom_2.coordinates[1]) THEN "True"
        ELSE "None"

\* pairs.py is_pair
is_pair(item_1, item_2) ==
    LET props_1 == item_1.properties
        props_2 == item_2.properties
    IN  IF \/ props_1.satellite_id # props_2.satellite_id
           \/ props_1.strip_id # props_2.strip_id
           \/ props_1.provider # props_2.provider
        THEN "False"
        ELSE IsPairTail(item_1, item_2)

\* movement.py is_pair
movement_is_pair(item_1, item_2) ==
    LET props_1 == item_1.properties
        props_2 == item_2.properties
    IN  IF \/ props_1.satellite_id # props_2.satellite_id
           \/ props_1.strip_id # props_2.strip_id
        THEN "False"
        ELSE IsPairTail(item_1, item_2)

\* the is_pair that find_pairs of the given file calls
CallIsPair(m, item_1, item_2) ==
    IF m = "pairs" THEN is_pair(item_1, item_2) ELSE movement_is_pair(item_1, item_2)

\* Python truth value of what is_pair returned
Truthy(v) == v = "True"

\* the inner loop over all_items[i:] instead
MutInnerStart(i) == i

\* first position of item_2 in the inner loop: all_items[i+1:] (0-based i)
InnerStart(i) == i + 1

ItemLists ==
    UNION { { [k \in 1..n |-> Item(k, f[k])] : f \in [1..n -> Scenes] } : n \in 0..MaxItems }

\* find_pairs up to the loops: list the items, enter the loops when there are two
ListItems ==
    /\ fpc = "call"
    /\ IF Len(all_items) > 1
       THEN /\ fpc' = "loop"
            /\ fi' = 1
            /\ fj' = InnerStart(1)
       ELSE /\ fpc' = "return"
            /\ UNCHANGED <<fi, fj>>
    /\ UNCHANGED <<module, all_items, pairs, calls>>
    /\ UNCHANGED mvars

\* one pass of the inner loop body, and the move to the next (item_1, item_2)
Compare ==
    /\ fpc = "loop"
    /\ LET item_1 == all_items[fi]
           item_2 == all_items[fj]
           res == CallIsPair(module, item_1, item_2)
       IN  /\ calls' = Append(calls, <<fi, fj, res>>)
           /\ pairs' = IF Truthy(res) THEN Append(pairs, <<item_1, item_2>>) ELSE pairs
    /\ IF fj < Len(all_items)
       THEN /\ fj' = fj + 1
            /\ UNCHANGED <<fi, fpc>>
       ELSE IF fi + 1 <= Len(all_items) - 1 /\ InnerStart(fi + 1) <= Len(all_items)
       THEN /\ fi' = fi + 1
            /\ fj' = InnerStart(fi + 1)
            /\ UNCHANGED fpc
       ELSE /\ fpc' = "return"
            /\ UNCHANGED <<fi, fj>>
    /\ UNCHANGED <<module, all_items>>
    /\ UNCHANGED mvars

\* return pairs
Return ==
    /\ fpc = "return"
    /\ fpc' = "done"
    /\ UNCHANGED <<module, all_items, fi, fj, pairs, calls>>
    /\ UNCHANGED mvars

NextPairs == ListItems \/ Compare \/ Return

(***************************************************************************)
(* Overlap compositor                                                      *)
(***************************************************************************)

\* Largest RasterXSize and RasterYSize of an input raster.
MaxXSize == 3
MaxYSize == 2

\* a Python tuple or list, indexed from 0
ZeroBased(t) == [k \in 0..(Len(t) - 1) |-> t[k + 1]]

\* An opened dataset: its geotransform, size and band count, and what fills its
\* bands (fill decides the alpha band, seed the other bands).
Dataset(x0, pw, rr, y0, cr, ph, xs, ys, n, fill, seed) ==
    [gt |-> ZeroBased(<<x0, pw, rr, y0, cr, ph>>),
     RasterXSize |-> xs, RasterYSize |-> ys, RasterCount |-> n,
     fill |-> fill, seed |-> seed]

\* the byte of band b (from 0) at column x, row y of the raster
PixelValue(ds, b, x, y) ==
    IF b = 3
    THEN CASE ds.fill = "opaque" -> 255
           [] ds.fill = "edge" -> IF x = 0 THEN 0 ELSE 255
           [] OTHER -> IF (x + y) % 2 = 0 THEN 254 ELSE 255
    ELSE ((ds.seed + 3 * x + 5 * y + b) % 255) + 1

\* int(round(a / b)): the nearest integer; a tie goes to the even one in
\* Python 3 and away from zero in Python 2
Round(a, b, mode) ==
    LET n == IF b < 0 THEN -a ELSE a
        d == Abs(b)
        q == n \div d
        r == n % d
    IN  IF 2 * r < d THEN q
        ELSE IF 2 * r > d THEN q + 1
        ELSE IF mode = "even" THEN (IF q % 2 = 0 THEN q ELSE q + 1)
        ELSE (IF n >= 0 THEN q + 1 ELSE q)

\* r1, r2: [left, top, right, bottom] of a raster on the ground
GroundBounds(ds) ==
    ZeroBased(<<ds.gt[0],
                ds.gt[3],
                ds.gt[0] + (ds.gt[1] * ds.RasterXSize),
                ds.gt[3] + (ds.gt[5] * ds.RasterYSize)>>)

\* the right edge taken with max instead of min
MutIntersect(r1, r2) ==
    ZeroBased(<<Max(r1[0], r2[0]),
                Min(r1[1], r2[1]),
                Max(r1[2], r2[2]),
                Max(r1[3], r2[3])>>)

\* intersect
Intersect(r1, r2) ==
    ZeroBased(<<Max(r1[0], r2[0]),
                Min(r1[1], r2[1]),
                Min(r1[2], r2[2]),
                Max(r1[3], r2[3])>>)

\* col taken with the pixel height and row with the pixel width
MutPixelWindow(intersect, r, gt, mode) ==
    LET left == Round(intersect[0] - r[0], gt[1], mode)
        top == Round(intersect[1] - r[1], gt[5], mode)
    IN  [left |-> left,
         top |-> top,
         col |-> Round(intersect[2] - r[0], gt[5], mode) - left,
         row |-> Round(intersect[3] - r[1], gt[1], mode) - top]

\* left, top, col, row of the intersect region in a raster's pixel grid
PixelWindow(intersect, r, gt, mode) ==
    LET left == Round(intersect[0] - r[0], gt[1], mode)
        top == Round(intersect[1] - r[1], gt[5], mode)
    IN  [left |-> left,
         top |-> top,
         col |-> Round(intersect[2] - r[0], gt[1], mode) - left,
         row |-> Round(intersect[3] - r[1], gt[5], mode) - top]

NoneValue == [kind |-> "None"]
Raised == [kind |-> "raise"]

\* the window lies in the raster and holds a pixel
WindowInExtent(ds, left, top, cols, rows) ==
    /\ cols >= 1 /\ rows >= 1
    /\ left >= 0 /\ top >= 0
    /\ left + cols <= ds.RasterXSize
    /\ top + rows <= ds.RasterYSize

\* the array of a window: bands x rows x cols, or rows x cols for one band
WindowArray(ds, left, top, cols, rows) ==
    [kind |-> "ndarray",
     shape |-> IF ds.RasterCount = 1 THEN <<rows, cols>>
               ELSE <<ds.RasterCount, rows, cols>>,
     px |-> [b \in 0..(ds.RasterCount - 1), r \in 0..(rows - 1), c \in 0..(cols - 1) |->
                 PixelValue(ds, b, left + c, top + r)]]

\* ds.ReadAsArray(left, top, cols, rows): the outcomes the raster library can
\* give.  A window in the raster is read.  Any other window is an error of the
\* library, which it raises or reports by returning None; a window of no
\* pixels (a size of 0, none negative) may also come back as an empty array.
ReadAsArray(ds, left, top, cols, rows) ==
    IF WindowInExtent(ds, left, top, cols, rows)
    THEN {WindowArray(ds, left, top, cols, rows)}
    ELSE IF cols >= 0 /\ rows >= 0 /\ (cols = 0 \/ rows = 0)
    THEN {Raised, NoneValue, WindowArray(ds, left, top, cols, rows)}
    ELSE {Raised, NoneValue}

\* numpy broadcasting of one dimension; -1 when the sizes do not go together
BroadcastDim(a, b) ==
    IF a = b THEN a ELSE IF a = 1 THEN b ELSE IF b = 1 THEN a ELSE -1

\* index into a dimension of size n that is broadcast
BIdx(n, i) == IF n = 1 THEN 0 ELSE i

\* rows and cols of an array read from a dataset of 2 bands or more
Rows(a) == a.shape[2]
Cols(a) == a.shape[3]

\* array[3,:,:] can be taken
HasBand4(a) == Len(a.shape) = 3 /\ a.shape[1] >= 4

\* one cell of the mask: alpha of both arrays is 255
MaskCell(a1, a2, r, c) ==
    IF /\ a1.px[3, BIdx(Rows(a1), r), BIdx(Cols(a1), c)] = 255
       /\ a2.px[3, BIdx(Rows(a2), r), BIdx(Cols(a2), c)] = 255
    THEN 1 ELSE 0

\* mask = ((array_1[3,:,:] == 255) * (array_2[3,:,:] == 255)).astype('uint8')
ComputeMask(a1, a2) ==
    LET rows == BroadcastDim(Rows(a1), Rows(a2))
        cols == BroadcastDim(Cols(a1), Cols(a2))
    IN  [rows |-> rows, cols |-> cols,
         m |-> [r \in 0..(rows - 1), c \in 0..(cols - 1) |-> MaskCell(a1, a2, r, c)]]

\* array *= mask works in place: the mask must broadcast to the array's shape
CanMultiply(a, rows, cols) ==
    /\ rows >= 0 /\ cols >= 0
    /\ BroadcastDim(Rows(a), rows) = Rows(a)
    /\ BroadcastDim(Cols(a), cols) = Cols(a)

\* the arrays left as read
MutMasked(a, mk) == a

\* array *= mask
Masked(a, mk) ==
    [a EXCEPT !.px = [b \in 0..(a.shape[1] - 1), r \in 0..(Rows(a) - 1),
                      c \in 0..(Cols(a) - 1) |->
                          a.px[b, r, c] * mk.m[BIdx(mk.rows, r), BIdx(mk.cols, c)]]]

NoFile == [kind |-> "absent"]

\* the origin of raster 1 kept, the offset of the window left out
MutOriginX(gt_1, rand_px, rand_py) == gt_1[0]

\* originX, originY
OriginX(gt_1, rand_px, rand_py) == gt_1[0] + (rand_px * gt_1[1]) + (rand_py * gt_1[2])
OriginY(gt_1, rand_px, rand_py) == gt_1[3] + (rand_px * gt_1[4]) + (rand_py * gt_1[5])

\* the color multi-view GeoTIFF: 4 bands of rows x cols
CmvRaster(a1, a2, mk, gt_1, left1, top1) ==
    LET rows == Rows(a1)
        cols == Cols(a1)
        cells == (0..(rows - 1)) \X (0..(cols - 1))
    IN  [kind |-> "tif", cols |-> cols, rows |-> rows,
         geotransform |-> ZeroBased(<<OriginX(gt_1, left1, top1), gt_1[1], 0,
                                      OriginY(gt_1, left1, top1), 0, gt_1[5]>>),
         bands |-> [k \in 1..4 |->
                      [rc \in cells |->
                          CASE k = 1 -> a1.px[0, rc[1], rc[2]]
                            [] k = 2 -> a2.px[0, rc[1], rc[2]]
                            [] k = 3 -> a2.px[0, rc[1], rc[2]]
                            [] OTHER -> mk.m[rc[1], rc[2]] * 255]]]

\* one GIF frame: rows x cols x 4
GifFrame(a, mk, rows, cols) ==
    [r \in 0..(rows - 1), c \in 0..(cols - 1), i \in 0..3 |->
        IF i < 3 THEN a.px[i, r, c] ELSE mk.m[r, c] * 255]

GifFile(a1, a2, mk) ==
    [kind |-> "gif", cols |-> Cols(a1), rows |-> Rows(a1),
     frames |-> <<GifFrame(a1, mk, Rows(a1), Cols(a1)),
                  GifFrame(a2, mk, Rows(a1), Cols(a1))>>]

\* open the datasets, intersect the bounds, read the region of image 1
ReadImage1 ==
    /\ ppc = "read1"
    /\ LET r1 == GroundBounds(ds_1)
           r2 == GroundBounds(ds_2)
           w == PixelWindow(Intersect(r1, r2), r1, ds_1.gt, pyround)
       IN  /\ win' = [left1 |-> w.left, top1 |-> w.top, col1 |-> w.col, row1 |-> w.row]
           /\ \E a \in ReadAsArray(ds_1, w.left, w.top, w.col, w.row) :
                IF a = Raised
                THEN /\ ppc' = "error" /\ err' = "ReadError"
                     /\ UNCHANGED array_1
                ELSE /\ ppc' = "read2" /\ array_1' = a
                     /\ UNCHANGED err
    /\ UNCHANGED <<pyround, ds_1, ds_2, cmv, gif, array_2, mask, files>>
    /\ UNCHANGED pvars

\* read the region of image 2
ReadImage2 ==
    /\ ppc = "read2"
    /\ LET r1 == GroundBounds(ds_1)
           r2 == GroundBounds(ds_2)
           w == PixelWindow(Intersect(r1, r2), r2, ds_2.gt, pyround)
       IN  /\ win' = [left1 |-> win.left1, top1 |-> win.top1,
                      col1 |-> win.col1, row1 |-> win.row1,
                      left2 |-> w.left, top2 |-> w.top, col2 |-> w.col, row2 |-> w.row]
           /\ \E a \in ReadAsArray(ds_2, w.left, w.top, w.col, w.row) :
                IF a = Raised
                THEN /\ ppc' = "error" /\ err' = "ReadError"
                     /\ UNCHANGED array_2
                ELSE /\ ppc' = "mask" /\ array_2' = a
                     /\ UNCHANGED err
    /\ UNCHANGED <<pyround, ds_1, ds_2, cmv, gif, array_1, mask, files>>
    /\ UNCHANGED pvars

\* the exception the masking lines raise, or "none"
MaskError(a1, a2) ==
    IF a1 = NoneValue \/ a2 = NoneValue THEN "TypeError"
    ELSE IF ~HasBand4(a1) \/ ~HasBand4(a2) THEN "IndexError"
    ELSE LET rows == BroadcastDim(Rows(a1), Rows(a2))
             cols == BroadcastDim(Cols(a1), Cols(a2))
         IN  IF rows < 0 \/ cols < 0 THEN "ValueError"
             ELSE IF ~CanMultiply(a1, rows, cols) \/ ~CanMultiply(a2, rows, cols)
             THEN "ValueError"
             ELSE "none"

\* mask data to overlapped pixels
MaskData ==
    /\ ppc = "mask"
    /\ LET e == MaskError(array_1, array_2)
       IN  IF e # "none"
           THEN /\ ppc' = "error" /\ err' = e
                /\ UNCHANGED <<array_1, array_2, mask>>
           ELSE LET mk == ComputeMask(array_1, array_2)
                IN  /\ mask' = mk
                    /\ array_1' = Masked(array_1, mk)
                    /\ array_2' = Masked(array_2, mk)
                    /\ ppc' = "cmv"
                    /\ UNCHANGED err
    /\ UNCHANGED <<pyround, ds_1, ds_2, cmv, gif, win, files>>
    /\ UNCHANGED pvars

\* save color multi-view image; a raster of no pixels cannot be created
SaveCMV ==
    /\ ppc = "cmv"
    /\ IF ~cmv
       THEN /\ ppc' = "gif"
            /\ UNCHANGED <<files, err>>
       ELSE IF Cols(array_1) < 1 \/ Rows(array_1) < 1
       THEN /\ ppc' = "error" /\ err' = "CreateError"
            /\ UNCHANGED files
       ELSE /\ files' = [files EXCEPT !.tif =
                             CmvRaster(array_1, array_2, mask, ds_1.gt, win.left1, win.top1)]
            /\ ppc' = "gif"
            /\ UNCHANGED err
    /\ UNCHANGED <<pyround, ds_1, ds_2, cmv, gif, win, array_1, array_2, mask>>
    /\ UNCHANGED pvars

\* save gif image; whether the image library writes an image of no pixels is
\* its own affair: it fails or it writes the file
SaveGIF ==
    /\ ppc = "gif"
    /\ IF ~gif
       THEN /\ ppc' = "done"
            /\ UNCHANGED <<files, err>>
       ELSE \/ /\ files' = [files EXCEPT !.gif = GifFile(array_1, array_2, mask)]
               /\ ppc' = "done"
               /\ UNCHANGED err
            \/ /\ Cols(array_1) < 1 \/ Rows(array_1) < 1
               /\ ppc' = "error" /\ err' = "SaveError"
               /\ UNCHANGED files
    /\ UNCHANGED <<pyround, ds_1, ds_2, cmv, gif, win, array_1, array_2, mask>>
    /\ UNCHANGED pvars

NextProc == ReadImage1 \/ ReadImage2 \/ MaskData \/ SaveCMV \/ SaveGIF

\* find_pairs is not running
IdlePairs ==
    /\ module = "pairs" /\ all_items = <<>> /\ fi = 0 /\ fj = 0
    /\ pairs = <<>> /\ calls = <<>> /\ fpc = "idle"

\* process_pair is not running
IdleProc ==
    /\ pyround = "even" /\ ds_1 = NoneValue /\ ds_2 = NoneValue
    /\ cmv = TRUE /\ gif = TRUE /\ win = NoneValue
    /\ array_1 = NoneValue /\ array_2 = NoneValue /\ mask = NoneValue
    /\ files = [tif |-> NoFile, gif |-> NoFile] /\ ppc = "idle" /\ err = "none"

\* process_pair called, nothing done yet
ProcCalled ==
    /\ win = NoneValue /\ array_1 = NoneValue /\ array_2 = NoneValue /\ mask = NoneValue
    /\ files = [tif |-> NoFile, gif |-> NoFile] /\ ppc = "read1" /\ err = "none"

\* find_pairs called on a search result
InitPairs ==
    /\ IdleProc
    /\ module \in {"pairs", "movement"}
    /\ all_items \in ItemLists
    /\ fi = 0 /\ fj = 0
    /\ pairs = <<>>
    /\ calls = <<>>
    /\ fpc = "call"

\* (pixel width, pixel height): north-up, north-up with unequal sides, flipped
PixelSizes == {<<2, -2>>, <<3, -2>>, <<-2, 2>>}
\* (row rotation, column rotation) of raster 1
Rotations == {<<0, 0>>, <<3, 3>>}
\* where raster 2 starts, in ground units, raster 1 starting at (0, 0)
OriginsX == {0, 1, 2, 7}
OriginsY == {0, -1, -7}

\* 4-band rasters of many geotransforms and sizes
InitWindow ==
    /\ IdlePairs
    /\ ProcCalled
    /\ pyround \in {"even", "away"}
    /\ cmv = TRUE /\ gif = TRUE
    /\ ds_1 \in { Dataset(0, ps[1], rot[1], 0, rot[2], ps[2], xs, ys, 4, "opaque", 0) :
                    ps \in PixelSizes, rot \in Rotations,
                    xs \in 1..MaxXSize, ys \in 1..MaxYSize }
    /\ ds_2 \in { Dataset(x0, ps[1], 0, y0, 0, ps[2], xs, ys, 4, "opaque", 7) :
                    x0 \in OriginsX, y0 \in OriginsY, ps \in PixelSizes,
                    xs \in 1..MaxXSize, ys \in 1..MaxYSize }

\* band counts of raster 1 and raster 2
BandCounts == {<<4, 4>>, <<3, 4>>, <<4, 3>>, <<5, 4>>, <<4, 5>>, <<5, 5>>, <<1, 4>>}
Fills == {"opaque", "edge", "checker"}
\* the keyword arguments cmv, gif
Outputs == {<<TRUE, TRUE>>, <<FALSE, TRUE>>, <<TRUE, FALSE>>}

\* north-up rasters of equal pixel size, of many band counts and alpha bands
InitPixels ==
    /\ IdlePairs
    /\ ProcCalled
    /\ pyround = "even"
    /\ \E o \in Outputs : cmv = o[1] /\ gif = o[2]
    /\ \E n \in BandCounts :
         /\ ds_1 \in { Dataset(0, 2, 0, 0, 0, -2, xs, ys, n[1], fill, 0) :
                         xs \in 1..MaxXSize, ys \in 1..MaxYSize, fill \in Fills }
         /\ ds_2 \in { Dataset(x0, 2, 0, 0, 0, -2, xs, ys, n[2], fill, 7) :
                         x0 \in {0, 2, 6},
                         xs \in 1..MaxXSize, ys \in 1..MaxYSize,
                         fill \in {"opaque", "checker"} }

SpecPairs == InitPairs /\ [][NextPairs]_vars
SpecWindow == InitWindow /\ [][NextProc]_vars
SpecPixels == InitPixels /\ [][NextProc]_vars

(***************************************************************************)
(* Properties                                                              *)
(***************************************************************************)

\* every condition of a valid pair holds of the two items
PairConditions(a, b) ==
    /\ a.properties.satellite_id = b.properties.satellite_id
    /\ a.properties.strip_id = b.properties.strip_id
    /\ a.properties.provider = b.properties.provider
    /\ Abs(a.properties.acquired - b.properties.acquired) <= 2000
    /\ a.geometry.type = "Polygon" /\ b.geometry.type = "Polygon"
    /\ PolygonIntersects(a.geometry.coordinates[1], b.geometry.coordinates[1])

\* C1: every call of is_pair of pairs.py returns True when the two items have
\* equal satellite_id, strip_id and provider, acquired times at most 2 seconds
\* apart, Polygon geometries and intersecting exterior rings, and returns False
\* when one of these conditions fails.
C1_IsPairReturnsBoolean ==
    module = "pairs" =>
        \A k \in 1..Len(calls) :
            LET a == all_items[calls[k][1]]
                b == all_items[calls[k][2]]
            IN  calls[k][3] = (IF PairConditions(a, b) THEN "True" ELSE "False")

Reversed(p) == <<p[2], p[1]>>

\* C2: find_pairs calls is_pair once for every i < j and for nothing else, so
\* n*(n-1)/2 times when it returns, and pairs never holds a pair twice, nor a
\* pair together with its reverse.
C2_FindPairsCombinations ==
    LET n == Len(all_items)
        called == { <<calls[k][1], calls[k][2]>> : k \in 1..Len(calls) }
    IN  /\ \A k \in 1..Len(calls) : 1 <= calls[k][1] /\ calls[k][1] < calls[k][2]
                                    /\ calls[k][2] <= n
        /\ Cardinality(called) = Len(calls)
        /\ fpc = "done" => 2 * Len(calls) = n * (n - 1)
        /\ \A p, q \in 1..Len(pairs) :
              /\ p # q => pairs[p] # pairs[q]
              /\ pairs[p] # Reversed(pairs[q])

C2_Witness ==
    /\ fpc = "done"
    /\ Len(all_items) = 3
    /\ Len(calls) = 3
    /\ Len(pairs) = 3

\* C9: is_pair of movement.py never returns True for two items of different
\* providers, and returns what is_pair of pairs.py returns.
C9_MovementIsPairChecksProvider ==
    module = "movement" =>
        \A k \in 1..Len(calls) :
            LET a == all_items[calls[k][1]]
                b == all_items[calls[k][2]]
            IN  /\ calls[k][3] = "True" => a.properties.provider = b.properties.provider
                /\ calls[k][3] = is_pair(a, b)

\* process_pair has computed the window of image 1, of image 2
HasWindow1 == "col1" \in DOMAIN win
HasWindow2 == "col2" \in DOMAIN win

\* the ground bounds of the two rasters share no area
NoOverlap ==
    LET i == Intersect(GroundBounds(ds_1), GroundBounds(ds_2))
    IN  i[2] <= i[0] \/ i[1] <= i[3]

NothingWritten == files.tif = NoFile /\ files.gif = NoFile

\* C3: when the ground bounds of the two rasters do not overlap, process_pair
\* writes no file and ends in a NoOverlap error.
C3_NoOverlapIsAnError ==
    (ppc # "idle" /\ NoOverlap) =>
        /\ NothingWritten
        /\ ppc # "done"
        /\ ppc = "error" => err = "NoOverlap"

\* mask, array_1 and array_2 are those of lines 141 to 144
Masking == ppc \in {"cmv", "gif", "done"} \/ (ppc = "error" /\ mask # NoneValue)

\* the cells of the sampled windows
MaskCells == (0..(mask.rows - 1)) \X (0..(mask.cols - 1))

\* alpha of both rasters is 255 at the cell of the sampled windows
BothOpaque(r, c) ==
    /\ PixelValue(ds_1, 3, win.left1 + c, win.top1 + r) = 255
    /\ PixelValue(ds_2, 3, win.left2 + c, win.top2 + r) = 255

\* C4: the mask is 1 exactly where alpha of both sampled windows is 255, and
\* every band of the composite and of both GIF frames is 0 where the mask is 0.
C4_MaskAndZeroedBands ==
    Masking =>
        \A rc \in MaskCells :
            LET r == rc[1]
                c == rc[2]
            IN  /\ mask.m[r, c] = (IF BothOpaque(r, c) THEN 1 ELSE 0)
                /\ (mask.m[r, c] = 0 /\ files.tif # NoFile) =>
                       \A k \in 1..4 : files.tif.bands[k][<<r, c>>] = 0
                /\ (mask.m[r, c] = 0 /\ files.gif # NoFile) =>
                       \A f \in 1..2 : \A i \in 0..3 : files.gif.frames[f][r, c, i] = 0

C4_Witness ==
    /\ ppc = "done"
    /\ files.tif # NoFile /\ files.gif # NoFile
    /\ \E rc \in MaskCells : mask.m[rc[1], rc[2]] = 0
    /\ \E rc \in MaskCells : mask.m[rc[1], rc[2]] = 1
    /\ ds_1.fill = "edge" /\ ds_2.fill = "checker"

\* C5: when the intersect rectangle is a raster's own ground bounds, the window
\* of that raster is left = 0, top = 0, cols = RasterXSize, rows = RasterYSize.
C5_OwnBoundsGiveFullWindow ==
    LET r1 == GroundBounds(ds_1)
        r2 == GroundBounds(ds_2)
    IN  /\ (HasWindow1 /\ Intersect(r1, r2) = r1) =>
              /\ win.left1 = 0 /\ win.top1 = 0
              /\ win.col1 = ds_1.RasterXSize /\ win.row1 = ds_1.RasterYSize
        /\ (HasWindow2 /\ Intersect(r1, r2) = r2) =>
              /\ win.left2 = 0 /\ win.top2 = 0
              /\ win.col2 = ds_2.RasterXSize /\ win.row2 = ds_2.RasterYSize

C5_Witness ==
    /\ HasWindow2
    /\ GroundBounds(ds_1) = GroundBounds(ds_2)
    /\ ds_1.gt[1] = 3 /\ ds_2.gt[1] = 3
    /\ ds_1.RasterXSize = 2 /\ ds_1.RasterYSize = 2
    /\ win.col1 = 2 /\ win.col2 = 2

\* each edge of the composite's ground bounds, from its geotransform and size,
\* is within one pixel of the edge of the intersect rectangle
RoundTrip ==
    LET t == files.tif
        g == t.geotransform
        i == Intersect(GroundBounds(ds_1), GroundBounds(ds_2))
    IN  /\ Abs(g[0] - i[0]) <= Abs(g[1])
        /\ Abs(g[3] - i[1]) <= Abs(g[5])
        /\ Abs(g[0] + (g[1] * t.cols) - i[2]) <= Abs(g[1])
        /\ Abs(g[3] + (g[5] * t.rows) - i[3]) <= Abs(g[5])

\* C6 as stated: for every two rasters of which a composite is written, the
\* composite's ground bounds reproduce the intersect rectangle within one pixel.
C6_RoundTripEveryRaster == files.tif # NoFile => RoundTrip

\* C6 amended: the same of every raster 1 whose geotransform has no rotation
\* terms (gt_1[2] = 0 and gt_1[4] = 0).
C6_RoundTripAxisAligned ==
    (files.tif # NoFile /\ ds_1.gt[2] = 0 /\ ds_1.gt[4] = 0) => RoundTrip

C6_Witness ==
    /\ files.tif # NoFile
    /\ ds_1.gt[2] = 0 /\ ds_1.gt[4] = 0
    /\ win.left1 = 2
    /\ ds_2.gt[0] = 7

\* the rasters are north-up with the same pixel size and their bounds share area
NorthUpOverlapping ==
    LET r1 == GroundBounds(ds_1)
        r2 == GroundBounds(ds_2)
    IN  /\ ds_1.gt[1] = ds_2.gt[1] /\ ds_1.gt[5] = ds_2.gt[5]
        /\ ds_1.gt[1] > 0 /\ ds_1.gt[5] < 0
        /\ r1[0] < r2[2] /\ r2[0] < r1[2]
        /\ r1[3] < r2[1] /\ r2[3] < r1[1]

\* both windows can be read: each lies in its raster and holds a pixel
BothWindowsInExtent ==
    /\ HasWindow2
    /\ WindowInExtent(ds_1, win.left1, win.top1, win.col1, win.row1)
    /\ WindowInExtent(ds_2, win.left2, win.top2, win.col2, win.row2)

\* C7: the window of image 2 has the cols and rows of the window of image 1, so
\* the two arrays have the same shape when the mask is formed.  Stated of the
\* inputs process_pair's docstring assumes (north-up rasters of equal pixel
\* size, overlapping footprints) and of windows that can both be read.
C7_WindowSizesAgree ==
    (NorthUpOverlapping /\ BothWindowsInExtent) =>
        /\ win.col1 = win.col2 /\ win.row1 = win.row2
        /\ ppc = "mask" => array_1.shape = array_2.shape

\* C8: when a raster does not have 4 bands, process_pair writes no file and does
\* not run to its end.
C8_BandCountIsChecked ==
    (ppc # "idle" /\ (ds_1.RasterCount # 4 \/ ds_2.RasterCount # 4)) =>
        (NothingWritten /\ ppc # "done")

\* C10: for north-up rasters of equal pixel size whose bounds overlap, the window
\* asked of each raster lies inside it.
C10_WindowInsideRaster ==
    NorthUpOverlapping =>
        /\ HasWindow1 =>
              /\ 0 <= win.left1 /\ 0 <= win.top1
              /\ win.left1 + win.col1 <= ds_1.RasterXSize
              /\ win.top1 + win.row1 <= ds_1.RasterYSize
        /\ HasWindow2 =>
              /\ 0 <= win.left2 /\ 0 <= win.top2
              /\ win.left2 + win.col2 <= ds_2.RasterXSize
              /\ win.top2 + win.row2 <= ds_2.RasterYSize

C10_Witness ==
    /\ NorthUpOverlapping
    /\ HasWindow2
    /\ ds_2.gt[0] = 1 /\ ds_2.gt[3] = -1
    /\ ds_1.RasterXSize = 3 /\ ds_2.RasterXSize = 1
    /\ win.col1 >= 1

====
